---- MODULE Spec2Model ----
(***************************************************************************)
(* Model of Atualizar_Planilhas.py: the ExcelRefresher context manager     *)
(* (__enter__, __exit__, refresh_workbook) and the batch driver under      *)
(* `if __name__ == "__main__"`.                                            *)
(*                                                                         *)
(* The program is single threaded.  pc is the position of the one thread   *)
(* of control; every call into the spreadsheet application (DispatchEx,    *)
(* property sets, Workbooks.Open, RefreshAll, CalculateUntilAsyncQueries-  *)
(* Done, Save, Close, Quit) is one step that either returns or raises.     *)
(* The application is outside the repository: whether a call raises is a   *)
(* nondeterministic choice of the environment.                             *)
(***************************************************************************)
EXTENDS Integers, Sequences, FiniteSets, TLC

\* ------------------------------------------------------------------ bounds
MaxLen == 3           \* longest LISTA_PLANILHAS explored

\* ------------------------------------------------------- input universe
ExistingPaths == {"A.xlsx", "B.xlsx"}
MissingPaths  == {"missing.xlsx"}
Paths         == ExistingPaths \cup MissingPaths

RECURSIVE SeqsUpTo(_, _)
SeqsUpTo(S, n) ==
    IF n = 0 THEN {<<>>}
    ELSE LET shorter == SeqsUpTo(S, n - 1)
         IN  shorter \cup {Append(s, x) : s \in {t \in shorter : Len(t) = n - 1}, x \in S}

VARIABLES
    pc,            \* position of the thread of control
    LISTA_PLANILHAS, \* the driver's list of paths
    idx,           \* index of the list item the for loop is at (1-based)
    visible,       \* ExcelRefresher.visible
    app,           \* ExcelRefresher.app : "None" | "held" | "deleted"
    wb,            \* local wb of refresh_workbook : "None" | "held"
    ret,           \* value of the pending return statement : "none"|"true"|"false"
    exc,           \* exception in flight : "none" or its origin
    excel,         \* the application instance : [state, Visible, DisplayAlerts, ScreenUpdating]
    book,          \* workbook inside the instance : "closed" | "open" | "refreshing" | "refreshed" | "saved"
    disk,          \* persisted files : existing path -> number of completed writes
    log,           \* emitted log records, in order
    results,       \* outcome of each refresh_workbook call, in order
    calls,         \* calls made into the application, in order
    clientAttr     \* environment: the object bound to `win32` has an attribute `client`

vars == <<pc, LISTA_PLANILHAS, idx, visible, app, wb, ret, exc, excel, book,
          disk, log, results, calls, clientAttr>>

\* ------------------------------------------------------------- logging
\* LevelName as it would be were fatal a level of its own above critical.
LevelName_FatalDistinct(method) ==
    CASE method = "info"     -> "INFO"
      [] method = "error"    -> "ERROR"
      [] method = "critical" -> "CRITICAL"
      [] method = "fatal"    -> "FATAL"

\* logging.Logger: fatal is an alias of critical; records carry the level name.
LevelName(method) ==
    CASE method = "info"     -> "INFO"
      [] method = "error"    -> "ERROR"
      [] method = "critical" -> "CRITICAL"
      [] method = "fatal"    -> "CRITICAL"

\* basicConfig(level=logging.INFO): every record of level INFO or above is emitted.
Emit(l, method, func, about) ==
    Append(l, [level |-> LevelName(method), func |-> func, about |-> about])

\* One call into the application: its name, the list item it was made for
\* (0 outside refresh_workbook) and whether it returned (TRUE) or raised.
Call(c, op, item, ok) == Append(c, [op |-> op, item |-> item, ok |-> ok])

\* PathExists with the existence test lost: every path is taken to exist.
PathExists_Always(p) == p \in Paths

\* Path(file_path).exists()
PathExists(p) == p \in DOMAIN disk

\* A fresh application instance started through automation.
NewInstance == [state |-> "running", Visible |-> FALSE,
                DisplayAlerts |-> TRUE, ScreenUpdating |-> TRUE]
NoInstance  == [state |-> "none", Visible |-> FALSE,
                DisplayAlerts |-> TRUE, ScreenUpdating |-> TRUE]

\* Truth value of a Python name holding None or a COM object.
Truthy(ref) == ref = "held"

\* ---------------------------------------------------------------- Init
Init ==
    /\ pc = "main"
    /\ LISTA_PLANILHAS \in SeqsUpTo(Paths, MaxLen)
    /\ idx = 1
    /\ visible \in BOOLEAN
    /\ app = "None"
    /\ wb = "None"
    /\ ret = "none"
    /\ exc = "none"
    /\ excel = NoInstance
    /\ book = "closed"
    /\ disk = [p \in ExistingPaths |-> 0]
    /\ log = <<>>
    /\ results = <<>>
    /\ calls = <<>>
    /\ clientAttr \in BOOLEAN

\* ------------------------------------------------------------- driver
\* logger.info(">>> Iniciando ..."); ExcelRefresher(visible=...) ; with ...:
Main_Start ==
    /\ pc = "main"
    /\ log' = Emit(log, "info", "<module>", "")
    /\ pc' = "enter_dispatch"
    /\ UNCHANGED <<LISTA_PLANILHAS, idx, visible, app, wb, ret, exc, excel, book,
                   disk, results, calls, clientAttr>>

\* ---------------------------------------------------------- __enter__
\* self.app = win32.client.DispatchEx("Excel.Application")
\* `win32` is bound to the module win32com.client; the attribute `client`
\* is looked up on it first, and the lookup raises when it is absent.
Enter_DispatchEx ==
    /\ pc = "enter_dispatch"
    /\ IF ~clientAttr
       THEN /\ exc' = "AttributeError"
            /\ pc' = "enter_except"
            /\ UNCHANGED <<app, excel, calls>>
       ELSE \E ok \in BOOLEAN :
            /\ calls' = Call(calls, "DispatchEx", 0, ok)
            /\ IF ok
               THEN /\ app' = "held"
                    /\ excel' = NewInstance
                    /\ exc' = exc
                    /\ pc' = "enter_visible"
               ELSE /\ exc' = "DispatchEx"
                    /\ pc' = "enter_except"
                    /\ UNCHANGED <<app, excel>>
    /\ UNCHANGED <<LISTA_PLANILHAS, idx, visible, wb, ret, book, disk, log,
                   results, clientAttr>>

\* self.app.Visible = self.visible
Enter_SetVisible ==
    /\ pc = "enter_visible"
    /\ \E ok \in BOOLEAN :
        /\ calls' = Call(calls, "Visible", 0, ok)
        /\ IF ok
           THEN /\ excel' = [excel EXCEPT !.Visible = visible]
                /\ exc' = exc
                /\ pc' = "enter_alerts"
           ELSE /\ exc' = "Visible"
                /\ pc' = "enter_except"
                /\ excel' = excel
    /\ UNCHANGED <<LISTA_PLANILHAS, idx, visible, app, wb, ret, book, disk, log,
                   results, clientAttr>>

\* self.app.DisplayAlerts = False ; logger.info(...) ; return self
Enter_SetDisplayAlerts ==
    /\ pc = "enter_alerts"
    /\ \E ok \in BOOLEAN :
        /\ calls' = Call(calls, "DisplayAlerts", 0, ok)
        /\ IF ok
           THEN /\ excel' = [excel EXCEPT !.DisplayAlerts = FALSE]
                /\ log' = Emit(log, "info", "__enter__", "")
                /\ exc' = exc
                /\ pc' = "loop"
           ELSE /\ exc' = "DisplayAlerts"
                /\ pc' = "enter_except"
                /\ UNCHANGED <<excel, log>>
    /\ UNCHANGED <<LISTA_PLANILHAS, idx, visible, app, wb, ret, book, disk,
                   results, clientAttr>>

\* except Exception as e: logger.critical(...) ; raise
\* __enter__ raised, so the with statement does not call __exit__.
Enter_Except ==
    /\ pc = "enter_except"
    /\ log' = Emit(log, "critical", "__enter__", "")
    /\ pc' = "main_except"
    /\ UNCHANGED <<LISTA_PLANILHAS, idx, visible, app, wb, ret, exc, excel, book,
                   disk, results, calls, clientAttr>>

\* Loop as it would be with a `break` on the first item reported false.
Loop_StopOnFailure ==
    /\ pc = "loop"
    /\ pc' = IF /\ idx <= Len(LISTA_PLANILHAS)
                /\ (results = <<>> \/ results[Len(results)] # "false")
             THEN "rw_exists" ELSE "exit"
    /\ UNCHANGED <<LISTA_PLANILHAS, idx, visible, app, wb, ret, exc, excel, book,
                   disk, log, results, calls, clientAttr>>

\* for arquivo in LISTA_PLANILHAS: bot.refresh_workbook(arquivo)
\* leaving the loop normally leaves the with block, which calls __exit__.
Loop ==
    /\ pc = "loop"
    /\ pc' = IF idx <= Len(LISTA_PLANILHAS) THEN "rw_exists" ELSE "exit"
    /\ UNCHANGED <<LISTA_PLANILHAS, idx, visible, app, wb, ret, exc, excel, book,
                   disk, log, results, calls, clientAttr>>

\* ---------------------------------------------------- refresh_workbook
Arquivo == LISTA_PLANILHAS[idx]

\* path_obj = Path(file_path)
\* if not path_obj.exists(): logger.error(...) ; return False
\* wb = None ; try: logger.info(f"Abrindo: ...")
RW_Exists ==
    /\ pc = "rw_exists"
    /\ IF ~PathExists(Arquivo)
       THEN /\ log' = Emit(log, "error", "refresh_workbook", Arquivo)
            /\ results' = Append(results, "false")
            /\ idx' = idx + 1
            /\ pc' = "loop"
            /\ UNCHANGED <<wb, ret>>
       ELSE /\ wb' = "None"
            /\ ret' = "none"
            /\ log' = Emit(log, "info", "refresh_workbook", Arquivo)
            /\ pc' = "rw_open"
            /\ UNCHANGED <<results, idx>>
    /\ UNCHANGED <<LISTA_PLANILHAS, visible, app, exc, excel, book, disk, calls,
                   clientAttr>>

\* wb = self.app.Workbooks.Open(str(path_obj.resolve()))
RW_Open ==
    /\ pc = "rw_open"
    /\ \E ok \in BOOLEAN :
        /\ calls' = Call(calls, "Open", idx, ok)
        /\ IF ok
           THEN /\ wb' = "held"
                /\ book' = "open"
                /\ pc' = "rw_screen_off"
           ELSE /\ pc' = "rw_except"
                /\ UNCHANGED <<wb, book>>
    /\ UNCHANGED <<LISTA_PLANILHAS, idx, visible, app, ret, exc, excel, disk, log,
                   results, clientAttr>>

\* self.app.ScreenUpdating = False ; logger.info("Disparando RefreshAll...")
RW_ScreenOff ==
    /\ pc = "rw_screen_off"
    /\ \E ok \in BOOLEAN :
        /\ calls' = Call(calls, "ScreenUpdatingOff", idx, ok)
        /\ IF ok
           THEN /\ excel' = [excel EXCEPT !.ScreenUpdating = FALSE]
                /\ log' = Emit(log, "info", "refresh_workbook", "")
                /\ pc' = "rw_refresh"
           ELSE /\ pc' = "rw_except"
                /\ UNCHANGED <<excel, log>>
    /\ UNCHANGED <<LISTA_PLANILHAS, idx, visible, app, wb, ret, exc, book, disk,
                   results, clientAttr>>

\* RW_RefreshAll as it would be with the refresh wrapped in its own
\* try/except pass: a failed refresh is ignored and the task goes on.
RW_RefreshAll_IgnoreFailure ==
    /\ pc = "rw_refresh"
    /\ \E ok \in BOOLEAN :
        /\ calls' = Call(calls, "RefreshAll", idx, ok)
        /\ book' = IF ok THEN "refreshing" ELSE book
        /\ pc' = "rw_wait"
    /\ UNCHANGED <<LISTA_PLANILHAS, idx, visible, app, wb, ret, exc, excel, disk,
                   log, results, clientAttr>>

\* wb.RefreshAll()
RW_RefreshAll ==
    /\ pc = "rw_refresh"
    /\ \E ok \in BOOLEAN :
        /\ calls' = Call(calls, "RefreshAll", idx, ok)
        /\ IF ok
           THEN /\ book' = "refreshing"
                /\ pc' = "rw_wait"
           ELSE /\ pc' = "rw_except"
                /\ book' = book
    /\ UNCHANGED <<LISTA_PLANILHAS, idx, visible, app, wb, ret, exc, excel, disk,
                   log, results, clientAttr>>

\* self.app.CalculateUntilAsyncQueriesDone()
RW_Wait ==
    /\ pc = "rw_wait"
    /\ \E ok \in BOOLEAN :
        /\ calls' = Call(calls, "CalculateUntilAsyncQueriesDone", idx, ok)
        /\ IF ok
           THEN /\ book' = "refreshed"
                /\ pc' = "rw_save"
           ELSE /\ pc' = "rw_except"
                /\ book' = book
    /\ UNCHANGED <<LISTA_PLANILHAS, idx, visible, app, wb, ret, exc, excel, disk,
                   log, results, clientAttr>>

\* RW_Save as it would be without the explicit wb.Save(): nothing is written
\* (Close discards the changes), yet success is logged and returned.
RW_Save_NoWrite ==
    /\ pc = "rw_save"
    /\ log' = Emit(log, "info", "refresh_workbook", Arquivo)
    /\ ret' = "true"
    /\ pc' = "rw_finally"
    /\ UNCHANGED <<LISTA_PLANILHAS, idx, visible, app, wb, exc, excel, book, disk,
                   results, calls, clientAttr>>

\* RW_Save as it would be with the save moved before the wait for the
\* asynchronous queries: Save is reached from the wait position as well.
RW_Save_BeforeWait ==
    /\ pc \in {"rw_wait", "rw_save"}
    /\ \E ok \in BOOLEAN :
        /\ calls' = Call(calls, "Save", idx, ok)
        /\ IF ok
           THEN /\ disk' = [disk EXCEPT ![Arquivo] = @ + 1]
                /\ book' = "saved"
                /\ log' = Emit(log, "info", "refresh_workbook", Arquivo)
                /\ ret' = "true"
                /\ pc' = "rw_finally"
           ELSE /\ pc' = "rw_except"
                /\ UNCHANGED <<disk, book, log, ret>>
    /\ UNCHANGED <<LISTA_PLANILHAS, idx, visible, app, wb, exc, excel, results,
                   clientAttr>>

\* wb.Save() ; logger.info(f"Sucesso: ...") ; return True
\* The return value is held while the finally block runs.
RW_Save ==
    /\ pc = "rw_save"
    /\ \E ok \in BOOLEAN :
        /\ calls' = Call(calls, "Save", idx, ok)
        /\ IF ok
           THEN /\ disk' = [disk EXCEPT ![Arquivo] = @ + 1]
                /\ book' = "saved"
                /\ log' = Emit(log, "info", "refresh_workbook", Arquivo)
                /\ ret' = "true"
                /\ pc' = "rw_finally"
           ELSE /\ pc' = "rw_except"
                /\ UNCHANGED <<disk, book, log, ret>>
    /\ UNCHANGED <<LISTA_PLANILHAS, idx, visible, app, wb, exc, excel, results,
                   clientAttr>>

\* RW_Except as it would be with the `return True` placed after the try
\* statement: the handler logs and the function goes on to report success.
RW_Except_FallsThrough ==
    /\ pc = "rw_except"
    /\ log' = Emit(log, "error", "refresh_workbook", Arquivo)
    /\ ret' = "true"
    /\ pc' = "rw_finally"
    /\ UNCHANGED <<LISTA_PLANILHAS, idx, visible, app, wb, exc, excel, book, disk,
                   results, calls, clientAttr>>

\* except Exception as e: logger.error(...) ; return False
RW_Except ==
    /\ pc = "rw_except"
    /\ log' = Emit(log, "error", "refresh_workbook", Arquivo)
    /\ ret' = "false"
    /\ pc' = "rw_finally"
    /\ UNCHANGED <<LISTA_PLANILHAS, idx, visible, app, wb, exc, excel, book, disk,
                   results, calls, clientAttr>>

\* RW_Close as it would be with the Close at the end of the try body instead
\* of in finally: the workbook is closed on the success path only.
RW_Close_OnlyOnSuccess ==
    /\ pc = "rw_finally"
    /\ IF Truthy(wb) /\ ret = "true"
       THEN \E ok \in BOOLEAN :
            /\ calls' = Call(calls, "Close", idx, ok)
            /\ IF ok
               THEN /\ book' = "closed"
                    /\ pc' = "rw_screen_on"
                    /\ UNCHANGED <<exc, results>>
               ELSE /\ exc' = "Close"
                    /\ results' = Append(results, "raised")
                    /\ pc' = "exit"
                    /\ book' = book
       ELSE /\ pc' = "rw_screen_on"
            /\ UNCHANGED <<calls, book, exc, results>>
    /\ UNCHANGED <<LISTA_PLANILHAS, idx, visible, app, wb, ret, excel, disk, log,
                   clientAttr>>

\* finally: if wb: wb.Close(SaveChanges=False)
\* An exception raised inside finally discards the pending return value and
\* leaves refresh_workbook, the for loop and the with block (whose __exit__ runs).
RW_Close ==
    /\ pc = "rw_finally"
    /\ IF Truthy(wb)
       THEN \E ok \in BOOLEAN :
            /\ calls' = Call(calls, "Close", idx, ok)
            /\ IF ok
               THEN /\ book' = "closed"
                    /\ pc' = "rw_screen_on"
                    /\ UNCHANGED <<exc, results>>
               ELSE /\ exc' = "Close"
                    /\ results' = Append(results, "raised")
                    /\ pc' = "exit"
                    /\ book' = book
       ELSE /\ pc' = "rw_screen_on"
            /\ UNCHANGED <<calls, book, exc, results>>
    /\ UNCHANGED <<LISTA_PLANILHAS, idx, visible, app, wb, ret, excel, disk, log,
                   clientAttr>>

\* RW_ScreenOn as it would be with the restore at the end of the try body
\* instead of in finally: ScreenUpdating is restored on the success path only.
RW_ScreenOn_OnlyOnSuccess ==
    /\ pc = "rw_screen_on"
    /\ IF ret = "true"
       THEN \E ok \in BOOLEAN :
            /\ calls' = Call(calls, "ScreenUpdatingOn", idx, ok)
            /\ IF ok
               THEN /\ excel' = [excel EXCEPT !.ScreenUpdating = TRUE]
                    /\ results' = Append(results, ret)
                    /\ idx' = idx + 1
                    /\ pc' = "loop"
                    /\ exc' = exc
               ELSE /\ exc' = "ScreenUpdatingOn"
                    /\ results' = Append(results, "raised")
                    /\ pc' = "exit"
                    /\ UNCHANGED <<excel, idx>>
       ELSE /\ results' = Append(results, ret)
            /\ idx' = idx + 1
            /\ pc' = "loop"
            /\ UNCHANGED <<calls, excel, exc>>
    /\ UNCHANGED <<LISTA_PLANILHAS, visible, app, wb, ret, book, disk, log,
                   clientAttr>>

\* finally: self.app.ScreenUpdating = True ; then the pending return completes
RW_ScreenOn ==
    /\ pc = "rw_screen_on"
    /\ \E ok \in BOOLEAN :
        /\ calls' = Call(calls, "ScreenUpdatingOn", idx, ok)
        /\ IF ok
           THEN /\ excel' = [excel EXCEPT !.ScreenUpdating = TRUE]
                /\ results' = Append(results, ret)
                /\ idx' = idx + 1
                /\ pc' = "loop"
                /\ exc' = exc
           ELSE /\ exc' = "ScreenUpdatingOn"
                /\ results' = Append(results, "raised")
                /\ pc' = "exit"
                /\ UNCHANGED <<excel, idx>>
    /\ UNCHANGED <<LISTA_PLANILHAS, visible, app, wb, ret, book, disk, log,
                   clientAttr>>

\* Exit as it would be with the teardown after the loop instead of in a with
\* statement: an exception in flight skips Quit.
Exit_OnlyOnSuccess ==
    /\ pc = "exit"
    /\ IF Truthy(app) /\ exc = "none"
       THEN \E ok \in BOOLEAN :
            /\ calls' = Call(calls, "Quit", 0, ok)
            /\ IF ok
               THEN /\ excel' = [excel EXCEPT !.state = "quit"]
                    /\ book' = "closed"
                    /\ app' = "deleted"
                    /\ log' = Emit(log, "info", "__exit__", "")
                    /\ exc' = exc
                    /\ pc' = "main_end"
               ELSE /\ exc' = "Quit"
                    /\ pc' = "main_except"
                    /\ UNCHANGED <<excel, book, app, log>>
       ELSE /\ pc' = IF exc = "none" THEN "main_end" ELSE "main_except"
            /\ UNCHANGED <<calls, excel, book, app, log, exc>>
    /\ UNCHANGED <<LISTA_PLANILHAS, idx, visible, wb, ret, disk, results,
                   clientAttr>>

\* ----------------------------------------------------------- __exit__
\* if self.app: self.app.Quit() ; del self.app ; logger.info(...)
\* __exit__ returns None, so an exception in flight keeps propagating; an
\* exception raised by Quit leaves __exit__ before del and the log call.
\* Quit with DisplayAlerts off closes any workbook still open without saving.
Exit ==
    /\ pc = "exit"
    /\ IF Truthy(app)
       THEN \E ok \in BOOLEAN :
            /\ calls' = Call(calls, "Quit", 0, ok)
            /\ IF ok
               THEN /\ excel' = [excel EXCEPT !.state = "quit"]
                    /\ book' = "closed"
                    /\ app' = "deleted"
                    /\ log' = Emit(log, "info", "__exit__", "")
                    /\ exc' = exc
                    /\ pc' = IF exc = "none" THEN "main_end" ELSE "main_except"
               ELSE /\ exc' = "Quit"
                    /\ pc' = "main_except"
                    /\ UNCHANGED <<excel, book, app, log>>
       ELSE /\ pc' = IF exc = "none" THEN "main_end" ELSE "main_except"
            /\ UNCHANGED <<calls, excel, book, app, log, exc>>
    /\ UNCHANGED <<LISTA_PLANILHAS, idx, visible, wb, ret, disk, results,
                   clientAttr>>

\* except Exception as e: logger.fatal(...)
Main_Except ==
    /\ pc = "main_except"
    /\ log' = Emit(log, "fatal", "<module>", "")
    /\ pc' = "main_end"
    /\ UNCHANGED <<LISTA_PLANILHAS, idx, visible, app, wb, ret, exc, excel, book,
                   disk, results, calls, clientAttr>>

\* logger.info(">>> Processo Finalizado <<<")
Main_End ==
    /\ pc = "main_end"
    /\ log' = Emit(log, "info", "<module>", "")
    /\ pc' = "done"
    /\ UNCHANGED <<LISTA_PLANILHAS, idx, visible, app, wb, ret, exc, excel, book,
                   disk, results, calls, clientAttr>>

Next ==
    \/ Main_Start
    \/ Enter_DispatchEx
    \/ Enter_SetVisible
    \/ Enter_SetDisplayAlerts
    \/ Enter_Except
    \/ Loop
    \/ RW_Exists
    \/ RW_Open
    \/ RW_ScreenOff
    \/ RW_RefreshAll
    \/ RW_Wait
    \/ RW_Save
    \/ RW_Except
    \/ RW_Close
    \/ RW_ScreenOn
    \/ Exit
    \/ Main_Except
    \/ Main_End

Spec == Init /\ [][Next]_vars

TypeOK ==
    /\ pc \in {"main", "enter_dispatch", "enter_visible", "enter_alerts",
               "enter_except", "loop", "rw_exists", "rw_open", "rw_screen_off",
               "rw_refresh", "rw_wait", "rw_save", "rw_except", "rw_finally",
               "rw_screen_on", "exit", "main_except", "main_end", "done"}
    /\ idx \in 1..(Len(LISTA_PLANILHAS) + 1)
    /\ app \in {"None", "held", "deleted"}
    /\ wb \in {"None", "held"}
    /\ ret \in {"none", "true", "false"}
    /\ book \in {"closed", "open", "refreshing", "refreshed", "saved"}
    /\ excel.state \in {"none", "running", "quit"}

\* ======================================================= properties
\* Observations over the recorded calls, results and log.
CallsOf(op)      == {i \in DOMAIN calls : calls[i].op = op}
Raised(op, item) == \E i \in DOMAIN calls :
                       calls[i].op = op /\ calls[i].item = item /\ ~calls[i].ok
Returned(op, item) == \E i \in DOMAIN calls :
                       calls[i].op = op /\ calls[i].item = item /\ calls[i].ok
LogCount(level)  == Cardinality({i \in DOMAIN log : log[i].level = level})

PrimaryOps == {"Open", "RefreshAll", "CalculateUntilAsyncQueriesDone", "Save"}
CleanupOps == {"Close", "ScreenUpdatingOn"}
PrimaryRaised(k) == \E op \in PrimaryOps : Raised(op, k)
CleanupRaised(k) == \E op \in CleanupOps : Raised(op, k)

Acquired      == Returned("DisplayAlerts", 0)
AcquireFailed == exc \in {"AttributeError", "DispatchEx", "Visible", "DisplayAlerts"}
ScopeExited   == pc \in {"main_except", "main_end", "done"}
NoFault       == \A i \in DOMAIN calls : calls[i].ok

\* ------------------------------------------------------------------ C1
\* C1: once the with block of the driver has been left after a successful
\* acquisition, whatever list was given and whichever per-item calls (Open,
\* ScreenUpdating, RefreshAll, wait, Save, Close) raised, and Quit itself
\* returning, the instance started for the run is no longer live: Quit was
\* invoked on it exactly once and self.app was deleted.
C1_ReleasedAfterScope ==
    (ScopeExited /\ Acquired /\ ~Raised("Quit", 0)) =>
        /\ excel.state = "quit"
        /\ app = "deleted"
        /\ Cardinality(CallsOf("Quit")) = 1
        /\ book = "closed"

\* A run in which an exception left refresh_workbook mid-batch and the scope
\* has been left with the instance gone.
C1_Witness ==
    /\ ScopeExited
    /\ Acquired
    /\ \E k \in DOMAIN results : results[k] = "raised" /\ k < Len(LISTA_PLANILHAS)
    /\ \E k \in DOMAIN results : PrimaryRaised(k)
    /\ excel.state = "quit"
    /\ app = "deleted"

\* ------------------------------------------------------------------ C2
\* C2: when Workbooks.Open, RefreshAll, CalculateUntilAsyncQueriesDone or Save
\* raised for an item (and the cleanup calls of that item returned), the call
\* of refresh_workbook returned false, no exception reached the caller, and at
\* the moment of return Quit has not been invoked and the Session is live and
\* held, with no workbook left open, ready for the next item.
C2_FaultIsolated ==
    /\ \A k \in DOMAIN results :
          (PrimaryRaised(k) /\ ~CleanupRaised(k)) => results[k] = "false"
    /\ (pc = "loop" /\ idx > 1 /\ PrimaryRaised(idx - 1)) =>
          /\ results[idx - 1] = "false"
          /\ exc = "none"
          /\ CallsOf("Quit") = {}
          /\ excel.state = "running"
          /\ app = "held"
          /\ book = "closed"

\* A primary step raised for one item and the next item, another existing
\* file, was refreshed and saved on the same Session.
C2_Witness ==
    \E k \in DOMAIN results :
        /\ PrimaryRaised(k)
        /\ results[k] = "false"
        /\ k + 1 \in DOMAIN results
        /\ LISTA_PLANILHAS[k + 1] # LISTA_PLANILHAS[k]
        /\ results[k + 1] = "true"
        /\ disk[LISTA_PLANILHAS[k + 1]] = 1

\* ------------------------------------------------------------------ C3
\* C3: when wb.Close or the restoring of ScreenUpdating raised during the
\* cleanup of an item, the failure is swallowed: the call still reported its
\* primary result (true if Save returned, false otherwise) and no exception
\* of the cleanup is in flight.
C3_CleanupSwallowed ==
    /\ \A k \in DOMAIN results :
          CleanupRaised(k) =>
              results[k] = (IF Returned("Save", k) THEN "true" ELSE "false")
    /\ exc \notin CleanupOps

\* ------------------------------------------------------------------ C4
\* C4: release never raises: once __exit__ has run for an acquired Session,
\* also when Quit raised, no exception of Quit is in flight, self.app has
\* been deleted and __exit__ has emitted its log line.
C4_ReleaseNeverRaises ==
    (ScopeExited /\ Acquired) =>
        /\ exc # "Quit"
        /\ app = "deleted"
        /\ \E i \in DOMAIN log : log[i].func = "__exit__"

\* ------------------------------------------------------------------ C5
\* C5: __enter__ fails only when the application cannot be started (that is,
\* only when DispatchEx raised), and when it succeeds the Session is live
\* with Visible equal to the requested visibility and DisplayAlerts off.
C5_AcquireSucceeds ==
    /\ AcquireFailed => Raised("DispatchEx", 0)
    /\ (Acquired /\ CallsOf("Quit") = {}) =>
          /\ excel.state = "running"
          /\ excel.Visible = visible
          /\ excel.DisplayAlerts = FALSE

\* ------------------------------------------------------------------ C6
\* C6: whenever Quit is about to be invoked on the Session or a new
\* refresh_workbook task starts on it, ScreenUpdating is enabled, whatever
\* failed in the task before.
C6_ScreenUpdatingRestored ==
    ((pc = "exit" /\ Truthy(app)) \/ pc = "rw_exists") => excel.ScreenUpdating

\* ------------------------------------------------------------------ C7
\* Number of the first n list items that name path p.
Occurrences(p, n) ==
    Cardinality({k \in 1..n : k <= Len(LISTA_PLANILHAS) /\ LISTA_PLANILHAS[k] = p})
ErrorsAbout(p) ==
    Cardinality({i \in DOMAIN log : log[i].level = "ERROR" /\ log[i].about = p})

\* C7: for a path that does not exist, refresh_workbook returned false, made
\* no call at all into the application for that item (no Open, no change of
\* ScreenUpdating, no Quit) and logged exactly one error per such call.
C7_MissingPathNoOpen ==
    /\ \A k \in DOMAIN results :
          LISTA_PLANILHAS[k] \notin DOMAIN disk =>
              /\ results[k] = "false"
              /\ \A i \in DOMAIN calls : calls[i].item # k
    /\ \A p \in Paths \ DOMAIN disk : ErrorsAbout(p) = Occurrences(p, Len(results))
    /\ (pc = "loop" /\ idx > 1 /\ LISTA_PLANILHAS[idx - 1] \notin DOMAIN disk) =>
          /\ Len(results) = idx - 1
          /\ excel.state = "running"
          /\ excel.ScreenUpdating
          /\ book = "closed"

\* refresh_workbook has returned false for a missing path on a live Session.
C7_Witness ==
    /\ pc = "loop"
    /\ idx > 1
    /\ LISTA_PLANILHAS[idx - 1] \in MissingPaths
    /\ results[idx - 1] = "false"
    /\ ErrorsAbout(LISTA_PLANILHAS[idx - 1]) >= 1
    /\ excel.state = "running"

\* ------------------------------------------------------------------ C8
\* C8 as stated: when acquisition failed, at the end of the run
\* refresh_workbook was invoked for no item and the log holds exactly one
\* entry of critical severity.
C8_SingleCritical ==
    (pc = "done" /\ AcquireFailed) =>
        /\ results = <<>>
        /\ \A i \in DOMAIN calls : calls[i].item = 0
        /\ \A i \in DOMAIN log : log[i].func # "refresh_workbook"
        /\ LogCount("CRITICAL") = 1

\* C8 amended: when acquisition failed, at the end of the run
\* refresh_workbook was invoked for no item and the log holds exactly two
\* entries of critical severity: the one of __enter__ followed by the one of
\* the driver's handler (logger.fatal).
C8_TwoCritical ==
    (pc = "done" /\ AcquireFailed) =>
        /\ results = <<>>
        /\ \A i \in DOMAIN calls : calls[i].item = 0
        /\ \A i \in DOMAIN log : log[i].func # "refresh_workbook"
        /\ LogCount("CRITICAL") = 2
        /\ \E i, j \in DOMAIN log :
              /\ i < j
              /\ log[i] = [level |-> "CRITICAL", func |-> "__enter__", about |-> ""]
              /\ log[j] = [level |-> "CRITICAL", func |-> "<module>", about |-> ""]

\* A run that ended after a failed acquisition, with a non-empty list.
C8_Witness ==
    /\ pc = "done"
    /\ AcquireFailed
    /\ Len(LISTA_PLANILHAS) > 0
    /\ LogCount("CRITICAL") > 0

\* ------------------------------------------------------------------ C9
\* C9: a file's persisted content changes during a call of refresh_workbook
\* if and only if that call returned true: between calls and after the loop,
\* the number of writes of each file equals the number of calls on it that
\* returned true (Close(SaveChanges=False) never writes).
C9_WrittenIffTrue ==
    (pc \in {"loop", "exit"} \/ ScopeExited) =>
        \A p \in DOMAIN disk :
            disk[p] = Cardinality({k \in DOMAIN results :
                                     LISTA_PLANILHAS[k] = p /\ results[k] = "true"})

\* ----------------------------------------------------------------- C10
\* C10: in a finished run in which the Session was acquired and no call into
\* the application raised, every list item has a result, true exactly for
\* the existing paths and false for the missing ones; the application was
\* started once and quit once; and the log holds exactly one error entry per
\* listed occurrence of a missing path and none for the existing ones.
C10_BatchScenario ==
    (pc = "done" /\ Acquired /\ NoFault) =>
        /\ Len(results) = Len(LISTA_PLANILHAS)
        /\ \A k \in DOMAIN results :
              results[k] = (IF LISTA_PLANILHAS[k] \in DOMAIN disk THEN "true" ELSE "false")
        /\ Cardinality(CallsOf("DispatchEx")) = 1
        /\ Cardinality(CallsOf("Quit")) = 1
        /\ \A p \in Paths :
              ErrorsAbout(p) = (IF p \in DOMAIN disk THEN 0
                                ELSE Occurrences(p, Len(LISTA_PLANILHAS)))
        /\ LogCount("ERROR") =
              Cardinality({k \in DOMAIN LISTA_PLANILHAS :
                             LISTA_PLANILHAS[k] \notin DOMAIN disk})

\* The run over [A, missing, B] has finished with results [true, false, true].
C10_Witness ==
    /\ pc = "done"
    /\ NoFault
    /\ LISTA_PLANILHAS = <<"A.xlsx", "missing.xlsx", "B.xlsx">>
    /\ results = <<"true", "false", "true">>
    /\ excel.state = "quit"
    /\ LogCount("ERROR") = 1

\* ----------------------------------------------------------------- C11
\* C11: release runs exactly once per successful acquire: Quit is never
\* invoked twice and never without a successful acquisition, and once the
\* with block has been left, normally or by an exception raised inside it,
\* the number of Quit invocations equals the number of successful
\* acquisitions (one if __enter__ returned, none if it raised).
C11_ReleaseOncePerAcquire ==
    /\ Cardinality(CallsOf("Quit")) <= 1
    /\ CallsOf("Quit") # {} => Acquired
    /\ ScopeExited =>
          Cardinality(CallsOf("Quit")) = (IF Acquired THEN 1 ELSE 0)
    /\ (ScopeExited /\ AcquireFailed) => ~Acquired

\* The with block was left by an exception raised inside refresh_workbook,
\* items were still pending, and Quit has been invoked once.
C11_Witness ==
    /\ ScopeExited
    /\ Acquired
    /\ exc \in CleanupOps
    /\ Len(results) < Len(LISTA_PLANILHAS)
    /\ Cardinality(CallsOf("Quit")) = 1

\* ----------------------------------------------------------------- C12
\* C12: once the Session was acquired, refresh_workbook is invoked exactly
\* once for every path of the list, in list order, however earlier items
\* failed: once the for loop has been left there is one outcome per list
\* item, and the calls made for the items appear in list order.
C12_EveryItemAttempted ==
    /\ ((pc = "exit" \/ ScopeExited) /\ Acquired) =>
          Len(results) = Len(LISTA_PLANILHAS)
    /\ \A i, j \in DOMAIN calls :
          (i < j /\ calls[i].item > 0 /\ calls[j].item > 0) =>
              calls[i].item <= calls[j].item

\* ----------------------------------------------------------------- C13
\* C13: whenever refresh_workbook has returned (true or false) on the live
\* Session, that is whenever control is back in the driver's loop,
\* ScreenUpdating is enabled: after a success, after a failure caught by the
\* except clause and after the missing-file return.
C13_ScreenUpdatingOnReturn ==
    pc = "loop" => (excel.state = "running" /\ excel.ScreenUpdating)

\* refresh_workbook has just returned false for an item whose ScreenUpdating
\* had been switched off before a later step raised.
C13_Witness ==
    /\ pc = "loop"
    /\ idx > 1
    /\ results[idx - 1] = "false"
    /\ Returned("ScreenUpdatingOff", idx - 1)
    /\ PrimaryRaised(idx - 1)
    /\ excel.ScreenUpdating

\* ----------------------------------------------------------------- C14
ClosesOf(k) == Cardinality({i \in DOMAIN calls :
                              calls[i].op = "Close" /\ calls[i].item = k})

\* C14: once control has left a refresh_workbook task, whatever its outcome,
\* Close was invoked exactly once for the task if its Open returned and not
\* at all otherwise; no call on the workbook is made for a task after its
\* Close; and when control is back in the loop no workbook is left open.
C14_ClosedOncePerOpen ==
    /\ \A k \in DOMAIN results :
          ClosesOf(k) = (IF Returned("Open", k) THEN 1 ELSE 0)
    /\ (Len(calls) > 0 /\ calls[Len(calls)].op \in PrimaryOps) =>
          ClosesOf(calls[Len(calls)].item) = 0
    /\ pc \in {"loop", "rw_exists", "rw_open"} => book = "closed"

\* A task whose Open returned and whose refresh raised has been left with
\* its workbook closed by the one Close call.
C14_Witness ==
    /\ pc = "loop"
    /\ idx > 1
    /\ Returned("Open", idx - 1)
    /\ Raised("RefreshAll", idx - 1)
    /\ ClosesOf(idx - 1) = 1
    /\ book = "closed"

\* ----------------------------------------------------------------- C15
AllFourReturned(k) == \A op \in PrimaryOps : Returned(op, k)

\* C15: a call of refresh_workbook returns true if and only if, within that
\* call, Open, RefreshAll, the asynchronous-query wait and Save all
\* returned; a call that returns after any other outcome of the four steps
\* returns false, and no call that did not complete all four reports true.
C15_TrueIffAllFour ==
    \A k \in DOMAIN results :
        /\ results[k] = "true" => AllFourReturned(k)
        /\ results[k] # "raised" => (results[k] = "true" <=> AllFourReturned(k))
        /\ (results[k] # "raised" /\ ~AllFourReturned(k)) => results[k] = "false"

\* Calls have returned both ways: one true after all four steps, one false
\* after Save raised with the three steps before it done.
C15_Witness ==
    \E k, m \in DOMAIN results :
        /\ results[k] = "true" /\ AllFourReturned(k)
        /\ results[m] = "false" /\ Raised("Save", m)
        /\ Returned("CalculateUntilAsyncQueriesDone", m)

\* ----------------------------------------------------------------- C16
TruesFor(p) == Cardinality({k \in DOMAIN results :
                              LISTA_PLANILHAS[k] = p /\ results[k] = "true"})
ItemFaultFree(k) == \A i \in DOMAIN calls : calls[i].item = k => calls[i].ok

\* C16: idempotence.  When the same existing file is listed twice in
\* succession and no call made for the two items raised, both calls return
\* true; after each of them the file has been written once more (saved in
\* its refreshed state), no workbook is open, and the Session is as it was
\* before the first call: running, held, ScreenUpdating enabled, Visible and
\* DisplayAlerts as set by __enter__.
C16_Idempotent ==
    \A k \in DOMAIN results :
        (LISTA_PLANILHAS[k] \in DOMAIN disk /\ ItemFaultFree(k)) =>
            /\ results[k] = "true"
            /\ ((k + 1 \in DOMAIN results /\ LISTA_PLANILHAS[k + 1] = LISTA_PLANILHAS[k]
                   /\ ItemFaultFree(k + 1)) =>
                  /\ results[k + 1] = "true"
                  /\ disk[LISTA_PLANILHAS[k]] >= 2)
            /\ (pc = "loop" /\ idx = k + 1) =>
                  /\ disk[LISTA_PLANILHAS[k]] = TruesFor(LISTA_PLANILHAS[k])
                  /\ disk[LISTA_PLANILHAS[k]] >= 1
                  /\ book = "closed"
                  /\ app = "held"
                  /\ excel = [state |-> "running", Visible |-> visible,
                              DisplayAlerts |-> FALSE, ScreenUpdating |-> TRUE]

\* The second of two successive fault-free calls on A.xlsx has returned.
C16_Witness ==
    /\ pc = "loop"
    /\ idx = 3
    /\ LISTA_PLANILHAS[1] = "A.xlsx"
    /\ LISTA_PLANILHAS[2] = "A.xlsx"
    /\ ItemFaultFree(1)
    /\ ItemFaultFree(2)
    /\ results = <<"true", "true">>
    /\ disk["A.xlsx"] = 2
    /\ book = "closed"

\* ----------------------------------------------------------------- C17
Rank(op) ==
    CASE op = "Open"                           -> 1
      [] op = "ScreenUpdatingOff"              -> 2
      [] op = "RefreshAll"                     -> 3
      [] op = "CalculateUntilAsyncQueriesDone" -> 4
      [] op = "Save"                           -> 5
      [] op = "Close"                          -> 6
      [] op = "ScreenUpdatingOn"               -> 7
      [] OTHER                                 -> 0

\* C17: within one call of refresh_workbook the calls into the application
\* come in the order Open, ScreenUpdating off, RefreshAll, wait, Save, Close
\* (each call made for an item ranks above the one made before it for the
\* same item), and Save is invoked only after RefreshAll and the wait for
\* the asynchronous queries have both returned in the same call, on a
\* workbook whose refresh is complete.
C17_SaveAfterWait ==
    /\ LET n == Len(calls) IN
          (n >= 2 /\ calls[n].item > 0 /\ calls[n - 1].item = calls[n].item) =>
              Rank(calls[n - 1].op) < Rank(calls[n].op)
    /\ LET n == Len(calls) IN
          (n >= 1 /\ calls[n].op = "Save") =>
              /\ n >= 4
              /\ calls[n - 1] = [op |-> "CalculateUntilAsyncQueriesDone",
                                 item |-> calls[n].item, ok |-> TRUE]
              /\ calls[n - 2] = [op |-> "RefreshAll",
                                 item |-> calls[n].item, ok |-> TRUE]
              /\ calls[n - 3].op = "ScreenUpdatingOff"
    /\ pc = "rw_save" => book = "refreshed"

\* Save has just returned, after RefreshAll and the wait.
C17_Witness ==
    /\ pc = "rw_finally"
    /\ ret = "true"
    /\ calls[Len(calls)].op = "Save"
    /\ Returned("RefreshAll", idx)
    /\ Returned("CalculateUntilAsyncQueriesDone", idx)
    /\ book = "saved"

\* ----------------------------------------------------------------- C18
\* C18: a failed acquisition leaves nothing behind: when __enter__ failed at
\* any of its steps, the failure was logged at critical severity by
\* __enter__ and re-raised to the driver (no item was attempted), and no
\* application instance created by the attempt is still running.
C18_NothingLeftBehind ==
    (AcquireFailed /\ ScopeExited) =>
        /\ \E i \in DOMAIN log :
              log[i].level = "CRITICAL" /\ log[i].func = "__enter__"
        /\ results = <<>>
        /\ excel.state # "running"

\* ----------------------------------------------------------------- C19
CountOk(op) == Cardinality({i \in DOMAIN calls : calls[i].op = op /\ calls[i].ok})
\* Workbooks opened and not yet closed, by Close or by the application quitting.
OpenHandles == IF Returned("Quit", 0) THEN 0 ELSE CountOk("Open") - CountOk("Close")

NextExceptWait ==
    \/ Main_Start \/ Enter_DispatchEx \/ Enter_SetVisible \/ Enter_SetDisplayAlerts
    \/ Enter_Except \/ Loop \/ RW_Exists \/ RW_Open \/ RW_ScreenOff \/ RW_RefreshAll
    \/ RW_Save \/ RW_Except \/ RW_Close \/ RW_ScreenOn \/ Exit \/ Main_Except
    \/ Main_End

\* Every call into the application eventually returns or raises.
FairSpec == Spec /\ WF_vars(Next)

\* C20: every run that has reached its end did so with the Session it
\* acquired released (Quit done and self.app deleted); and while the wait
\* for the asynchronous queries is pending no other step of the program can
\* run, with the Session live and unreleased.
C20_EndsReleased ==
    /\ (pc = "done" /\ Acquired) => (excel.state = "quit" /\ app = "deleted")
    /\ pc = "rw_wait" =>
          /\ ~ENABLED NextExceptWait
          /\ excel.state = "running"
          /\ app = "held"

\* C20, the part that holds: while the wait is pending nothing else can run
\* and the Session stays live and held.
C20_NoTimeout ==
    pc = "rw_wait" =>
        /\ ~ENABLED NextExceptWait
        /\ excel.state = "running"
        /\ app = "held"

\* C20, the part that holds: when every call returns or raises, every run
\* reaches the end of the driver (no exception escapes it).
C20_Terminates == <>(pc = "done")

====
